---- MODULE Spec2Model ----
(***************************************************************************)
(* Model of Client.list of src/electronicmail/imap.py: the byte-level      *)
(* scan that turns every untagged LIST reply line into a mailbox record;   *)
(* and of Client.status: the validation and forwarding of the item names.  *)
(* A byte is a one-character string, a bytes object a sequence of them.    *)
(* Python indexes from 0; Slice translates resp[a:b] to 1-based SubSeq.    *)
(***************************************************************************)
EXTENDS Integers, Sequences, FiniteSets, TLC

VARIABLES pc, result, responses, mailboxes, r, resp, name_attributes,
          hierarchy_delimeter, hierarchy_delimiter, name, i, state,
          name_attribute_begin_index, hierarchy_delimiter_begin_index,
          name_begin_index, raised, returned,
          status_pc, mailbox_name, status_data_item_names_list, status_n,
          status_data_item_names_str, status_request, status_raised,
          status_returned

\* The variables of a call of Client.status.
statusvars == <<status_pc, mailbox_name, status_data_item_names_list, status_n,
                status_data_item_names_str, status_request, status_raised,
                status_returned>>

vars == <<pc, result, responses, mailboxes, r, resp, name_attributes,
          hierarchy_delimeter, hierarchy_delimiter, name, i, state,
          name_attribute_begin_index, hierarchy_delimiter_begin_index,
          name_begin_index, raised, returned, statusvars>>

locals == <<resp, name_attributes, hierarchy_delimeter, hierarchy_delimiter,
            name, i, state, name_attribute_begin_index,
            hierarchy_delimiter_begin_index, name_begin_index>>

(***************************************************************************)
(* Bytes and Python values                                                 *)
(***************************************************************************)
DQUOTE == "\""
BSLASH == "\\"
SP == " "
LPAREN == "("
RPAREN == ")"

\* Python None for an index variable, for a bytes variable, and the state of
\* a local name that no assignment has bound yet.
NoneIndex == -1
NoneBytes == <<"None">>
Unbound == <<"Unbound">>

ResultCodes == {"OK", "NO", "BAD"}

\* b[a:b] of Python for 0 <= a: the bytes at offsets a .. b-1, clamped to the
\* object's length (a slice never raises).
Slice(s, a, b) ==
    LET hi == IF b < Len(s) THEN b ELSE Len(s)
    IN  IF a + 1 > hi THEN <<>> ELSE SubSeq(s, a + 1, hi)

\* resp[i:i+1]: the one byte at offset i, or the empty bytes past the end.
At(s, a) == Slice(s, a, a + 1)

(***************************************************************************)
(* Bounds of the checked inputs                                            *)
(***************************************************************************)
MaxAttrs == 2
MaxDelim == 2
MaxName == 2
MaxRaw == 3
MaxLines == 2

SeqsUpTo(S, n) == UNION {[1..m -> S] : m \in 0..n}

RECURSIVE JoinSP(_)
JoinSP(ts) ==
    IF Len(ts) = 0 THEN <<>>
    ELSE IF Len(ts) = 1 THEN ts[1]
    ELSE ts[1] \o <<SP>> \o JoinSP(Tail(ts))

Quote(s) == <<DQUOTE>> \o s \o <<DQUOTE>>

\* One reply line: attribute field, delimiter field, name field, single SP
\* between them.
Build(ts, dfield, nfield) ==
    <<LPAREN>> \o JoinSP(ts) \o <<RPAREN, SP>> \o dfield \o <<SP>> \o nfield

AttrToks == {<<BSLASH, "A">>, <<BSLASH, "B">>, <<BSLASH, "1">>}
DelimChars == {"/", SP, DQUOTE}
NameChars == {"X", "*", "%", BSLASH, DQUOTE}
RawBytes == {LPAREN, RPAREN, SP, DQUOTE, BSLASH, "A"}
NIL == <<"N", "I", "L">>

AttrSeqs == SeqsUpTo(AttrToks, MaxAttrs)
DelimFields == {Quote(d) : d \in SeqsUpTo(DelimChars, MaxDelim)} \cup {NIL}
NameFields == {Quote(n) : n \in SeqsUpTo(NameChars, MaxName)}

\* Lines of three fields, two of the fields ranging over all their values.
GrammarLines ==
    {Build(ts, Quote(<<"/">>), n) : ts \in AttrSeqs, n \in NameFields}
      \cup {Build(<<<<BSLASH, "A">>>>, d, n) : d \in DelimFields, n \in NameFields}
      \cup {Build(ts, d, Quote(<<"X">>)) : ts \in AttrSeqs, d \in DelimFields}

\* Lines of the grammar without NIL and escapes, the three fields ranging
\* together: distinct letter attributes, one delimiter character, plain name.
AlphaToks == {<<BSLASH, "A">>, <<BSLASH, "B">>}
Distinct(ts) == \A a, b \in 1..Len(ts) : a # b => ts[a] # ts[b]
PlainDelims == DelimChars \ {DQUOTE}
PlainNames == SeqsUpTo(NameChars \ {DQUOTE, BSLASH}, MaxName)
PlainAttrSeqs ==
    {t \in SeqsUpTo(AlphaToks, MaxAttrs) : Len(t) >= 1 /\ Distinct(t)}
PlainLines ==
    {Build(ts, Quote(<<c>>), Quote(n)) :
        ts \in PlainAttrSeqs, c \in PlainDelims, n \in PlainNames}

\* Well-formed sample lines, cut at every position and followed by more bytes.
SampleLines ==
    { Build(<<<<BSLASH, "A">>>>, Quote(<<"/">>), Quote(<<"X">>)),
      Build(<<<<BSLASH, "A">>, <<BSLASH, "B">>>>, Quote(<<"/">>), Quote(<<>>)),
      Build(<<>>, Quote(<<"/">>), Quote(<<"X">>)),
      Build(<<<<BSLASH, "A">>>>, NIL, Quote(<<"X">>)) }
TruncatedLines == UNION {{SubSeq(l, 1, n) : n \in 0..Len(l)} : l \in SampleLines}
TrailedLines == {l \o t : l \in SampleLines, t \in {<<SP>>, <<"X">>, <<DQUOTE>>}}
SpacedLines ==
    { <<LPAREN, BSLASH, "A">> \o s1 \o <<BSLASH, "B", RPAREN>> \o s2
        \o Quote(<<"/">>) \o s3 \o Quote(<<"X">>) :
        s1 \in {<<>>, <<SP>>, <<SP, SP>>},
        s2 \in {<<>>, <<SP>>, <<SP, SP>>},
        s3 \in {<<>>, <<SP>>, <<SP, SP>>} }
RawLines == SeqsUpTo(RawBytes, MaxRaw)

\* Attribute lists with tokens that are not a backslash and letters.
OddToks == {<<BSLASH>>, <<BSLASH, DQUOTE>>, <<BSLASH, BSLASH>>,
            <<BSLASH, "A", "1">>, <<"A">>, <<BSLASH, "A">>}
OddAttrLines ==
    {Build(ts, Quote(<<"/">>), Quote(<<"X">>)) : ts \in SeqsUpTo(OddToks, 2)}

\* The quoted-string encoding of a name: a backslash before every DQUOTE and
\* every backslash.
RECURSIVE Escape(_)
Escape(n) ==
    IF n = <<>> THEN <<>>
    ELSE (IF Head(n) \in {DQUOTE, BSLASH} THEN <<BSLASH, Head(n)>> ELSE <<Head(n)>>)
            \o Escape(Tail(n))
EscapedLines ==
    { Build(<<<<BSLASH, "A">>>>, Quote(<<"/">>), Quote(Escape(n))) :
        n \in SeqsUpTo(NameChars, MaxName) }

\* Lines the scan accepts, followed by more bytes.
Trails == {<<SP>>, <<"X">>, <<DQUOTE>>, <<SP, DQUOTE, DQUOTE>>}
PlainTrailedLines == {l \o t : l \in PlainLines, t \in Trails}

\* Lines that end inside the name: the opening quote and no closing one.
UnterminatedNames == SeqsUpTo(NameChars \ {DQUOTE}, MaxName)
UnterminatedLines ==
    {Build(ts, Quote(<<"/">>), <<DQUOTE>> \o n) :
        ts \in PlainAttrSeqs, n \in UnterminatedNames}

Lines == GrammarLines \cup PlainLines \cup TruncatedLines \cup TrailedLines \cup SpacedLines
            \cup RawLines \cup EscapedLines \cup OddAttrLines
            \cup PlainTrailedLines \cup UnterminatedLines

\* Lines of the multi-line replies.
ReplyLines ==
    { Build(<<<<BSLASH, "A">>>>, Quote(<<"/">>), Quote(<<"X">>)),
      Build(<<<<BSLASH, "B">>>>, Quote(<<".">>), Quote(<<>>)),
      Build(<<<<BSLASH, "A">>, <<BSLASH, "B">>>>, Quote(<<>>), Quote(<<"X", "X">>)),
      Build(<<<<BSLASH, "A">>, <<BSLASH, "A">>>>, Quote(<<"/">>), Quote(<<"X">>)),
      Build(<<<<BSLASH, "A">>>>, NIL, Quote(<<"X">>)),
      Build(<<>>, Quote(<<"/">>), Quote(<<"X">>)),
      NoneBytes }

\* Replies of two lines: a line of the grammar whose name is written with
\* escapes, then the same line again or the line with its name field escaped
\* once more.
RoundTripLine(n) == Build(<<<<BSLASH, "A">>>>, Quote(<<"/">>), Quote(Escape(n)))
RoundTripReplies ==
    UNION { { <<RoundTripLine(n), RoundTripLine(n)>>,
              <<RoundTripLine(n), RoundTripLine(Escape(n))>> } :
            n \in SeqsUpTo(NameChars, MaxName) }

Replies ==
    {<<l>> : l \in Lines}
      \cup UNION {[1..m -> ReplyLines] : m \in (0..MaxLines) \ {1}}
      \cup {<<NoneBytes>>}
      \cup RoundTripReplies

(***************************************************************************)
(* State                                                                   *)
(***************************************************************************)
\* The exception that left the call: the source line that raised it and the
\* arguments it carries. A bare "assert cond" raises AssertionError().
NotRaised == [type |-> "None", line |-> 0, args |-> <<>>]

\* Reading a local name that is not bound raises UnboundLocalError.
ErrorType(line) == IF line = 355 THEN "UnboundLocalError" ELSE "AssertionError"

\* Raise with the exception swallowed: the call ends as a normal return.
Raise_Swallowed(line) ==
    /\ pc' = "returned"
    /\ raised' = raised

\* The statement of the given source line raises; the exception leaves the call.
Raise(line) ==
    /\ pc' = "raised"
    /\ raised' = [type |-> ErrorType(line), line |-> line, args |-> <<>>]

Init ==
    /\ pc = "idle"
    /\ result = "None"
    /\ responses = <<>>
    /\ mailboxes = <<>>
    /\ r = 0
    /\ resp = Unbound
    /\ name_attributes = {}
    /\ hierarchy_delimeter = Unbound
    /\ hierarchy_delimiter = Unbound
    /\ name = Unbound
    /\ i = 0
    /\ state = "Unbound"
    /\ name_attribute_begin_index = NoneIndex
    /\ hierarchy_delimiter_begin_index = NoneIndex
    /\ name_begin_index = NoneIndex
    /\ raised = NotRaised
    /\ returned = <<>>
    /\ status_pc = "idle"
    /\ mailbox_name = "None"
    /\ status_data_item_names_list = <<>>
    /\ status_n = 0
    /\ status_data_item_names_str = "None"
    /\ status_request = <<>>
    /\ status_raised = NotRaised
    /\ status_returned = <<>>

\* The variables that no step of the scan of a line changes: those of the
\* call around the loop, and those of Client.status.
callvars == <<result, responses, mailboxes, r, returned, statusvars>>

\* result, responses = self._kernel.list(...); the two asserts on the reply
\* hold for the values drawn here; mailboxes = list().
ListCall ==
    /\ pc = "idle"
    /\ \E res \in ResultCodes, rs \in Replies :
          /\ result' = res
          /\ responses' = rs
    /\ mailboxes' = <<>>
    /\ r' = 1
    /\ pc' = "for"
    /\ UNCHANGED <<locals, raised, returned, statusvars>>

\* ForResp with name_attributes created once, before the loop over the lines.
ForResp_AttributesNotReset ==
    /\ pc = "for"
    /\ r <= Len(responses)
    /\ resp' = responses[r]
    /\ name_attributes' = IF r = 1 THEN {} ELSE name_attributes
    /\ hierarchy_delimeter' = NoneBytes
    /\ name' = NoneBytes
    /\ IF responses[r] = NoneBytes
       THEN /\ Raise(239)
            /\ UNCHANGED <<i, state, name_attribute_begin_index,
                           hierarchy_delimiter_begin_index, name_begin_index>>
       ELSE /\ i' = 0
            /\ state' = "INIT"
            /\ name_attribute_begin_index' = NoneIndex
            /\ hierarchy_delimiter_begin_index' = NoneIndex
            /\ name_begin_index' = NoneIndex
            /\ pc' = "while"
            /\ UNCHANGED raised
    /\ UNCHANGED <<hierarchy_delimiter, callvars>>

\* for resp in responses: the per-line initialisation. The name bound here
\* is hierarchy_delimeter; hierarchy_delimiter keeps its earlier binding.
ForResp ==
    /\ pc = "for"
    /\ r <= Len(responses)
    /\ resp' = responses[r]
    /\ name_attributes' = {}
    /\ hierarchy_delimeter' = NoneBytes
    /\ name' = NoneBytes
    /\ IF responses[r] = NoneBytes
       THEN /\ Raise(239)
            /\ UNCHANGED <<i, state, name_attribute_begin_index,
                           hierarchy_delimiter_begin_index, name_begin_index>>
       ELSE /\ i' = 0
            /\ state' = "INIT"
            /\ name_attribute_begin_index' = NoneIndex
            /\ hierarchy_delimiter_begin_index' = NoneIndex
            /\ name_begin_index' = NoneIndex
            /\ pc' = "while"
            /\ UNCHANGED raised
    /\ UNCHANGED <<hierarchy_delimiter, callvars>>

\* Return taken before the last line of the reply has been scanned.
Return_BeforeLastLine ==
    /\ pc = "for"
    /\ r >= Len(responses)
    /\ pc' = "returned"
    /\ returned' = <<result, mailboxes>>
    /\ UNCHANGED <<result, responses, mailboxes, r, locals, raised, statusvars>>

\* return result, mailboxes
Return ==
    /\ pc = "for"
    /\ r > Len(responses)
    /\ pc' = "returned"
    /\ returned' = <<result, mailboxes>>
    /\ UNCHANGED <<result, responses, mailboxes, r, locals, raised, statusvars>>

\* assert 0 <= i and i <= len(resp), at the head of every iteration
LoopHeadOk == 0 <= i /\ i <= Len(resp)
\* InsideOk without the test against the end of the line.
InsideOk_NoUpperBound == 0 < i

\* assert 0 < i and i < len(resp), at the head of the reading states
InsideOk == 0 < i /\ i < Len(resp)

\* INIT without the assert on the opening parenthesis.
INIT_NoParenCheck ==
    /\ pc = "while"
    /\ state = "INIT"
    /\ LET f == IF ~LoopHeadOk THEN 250
                ELSE IF 0 # i THEN 254
                ELSE 0
       IN  IF f # 0
           THEN Raise(f) /\ UNCHANGED <<locals, callvars>>
           ELSE /\ state' = "READ_NAME_ATTRIBUTE_BEGIN"
                /\ i' = 1
                /\ UNCHANGED <<pc, raised, callvars, resp, name_attributes,
                               hierarchy_delimeter, hierarchy_delimiter, name,
                               name_attribute_begin_index,
                               hierarchy_delimiter_begin_index,
                               name_begin_index>>

INIT ==
    /\ pc = "while"
    /\ state = "INIT"
    /\ LET f == IF ~LoopHeadOk THEN 250
                ELSE IF 0 # i THEN 254
                ELSE IF At(resp, i) # <<LPAREN>> THEN 255
                ELSE 0
       IN  IF f # 0
           THEN Raise(f) /\ UNCHANGED <<locals, callvars>>
           ELSE /\ state' = "READ_NAME_ATTRIBUTE_BEGIN"
                /\ i' = 1
                /\ UNCHANGED <<pc, raised, callvars, resp, name_attributes,
                               hierarchy_delimeter, hierarchy_delimiter, name,
                               name_attribute_begin_index,
                               hierarchy_delimiter_begin_index,
                               name_begin_index>>

\* READ_NAME_ATTRIBUTE_BEGIN with the name of the next state written without
\* its ATTRIBUTE part.
READ_NAME_ATTRIBUTE_BEGIN_WrongNextState ==
    /\ pc = "while"
    /\ state = "READ_NAME_ATTRIBUTE_BEGIN"
    /\ LET f == IF ~LoopHeadOk THEN 250
                ELSE IF ~InsideOk THEN 262
                ELSE IF At(resp, i) # <<BSLASH>> THEN 263
                ELSE IF name_attribute_begin_index # NoneIndex THEN 265
                ELSE 0
       IN  IF f # 0
           THEN Raise(f) /\ UNCHANGED <<locals, callvars>>
           ELSE /\ name_attribute_begin_index' = i
                /\ state' = "READ_NAME_INSIDE"
                /\ i' = i + 1
                /\ UNCHANGED <<pc, raised, callvars, resp, name_attributes,
                               hierarchy_delimeter, hierarchy_delimiter, name,
                               hierarchy_delimiter_begin_index,
                               name_begin_index>>

READ_NAME_ATTRIBUTE_BEGIN ==
    /\ pc = "while"
    /\ state = "READ_NAME_ATTRIBUTE_BEGIN"
    /\ LET f == IF ~LoopHeadOk THEN 250
                ELSE IF ~InsideOk THEN 262
                ELSE IF At(resp, i) # <<BSLASH>> THEN 263
                ELSE IF name_attribute_begin_index # NoneIndex THEN 265
                ELSE 0
       IN  IF f # 0
           THEN Raise(f) /\ UNCHANGED <<locals, callvars>>
           ELSE /\ name_attribute_begin_index' = i
                /\ state' = "READ_NAME_ATTRIBUTE_INSIDE"
                /\ i' = i + 1
                /\ UNCHANGED <<pc, raised, callvars, resp, name_attributes,
                               hierarchy_delimeter, hierarchy_delimiter, name,
                               hierarchy_delimiter_begin_index,
                               name_begin_index>>

\* NameAttr with the byte that ends the token taken into it.
NameAttr_ThroughTerminator(s, begin, at) == Slice(s, begin, at + 1)

\* NameAttr with the token taken from after its backslash.
NameAttr_AfterBackslash(s, begin, at) == Slice(s, begin + 1, at)

\* name_attr = resp[name_attribute_begin_index:i]
NameAttr(s, begin, at) == Slice(s, begin, at)

\* NotYetSeen without the membership test.
NotYetSeen_Unchecked(name_attr, attrs) == TRUE

\* assert name_attr not in name_attributes
NotYetSeen(name_attr, attrs) == name_attr \notin attrs

\* READ_NAME_ATTRIBUTE_INSIDE without "name_attribute_begin_index = None" after
\* a token is added.
READ_NAME_ATTRIBUTE_INSIDE_TrackerNotCleared ==
    /\ pc = "while"
    /\ state = "READ_NAME_ATTRIBUTE_INSIDE"
    /\ LET name_attr == NameAttr(resp, name_attribute_begin_index, i)
           f == IF ~LoopHeadOk THEN 250
                ELSE IF ~InsideOk THEN 273
                ELSE IF At(resp, i) \notin {<<SP>>, <<RPAREN>>} THEN 0
                ELSE IF ~NotYetSeen(name_attr, name_attributes) THEN 279
                ELSE IF At(resp, i) = <<SP>> THEN 0
                ELSE IF At(resp, i + 1) # <<SP>> THEN 292
                ELSE IF At(resp, i + 2) # <<DQUOTE>> THEN 293
                ELSE IF hierarchy_delimiter_begin_index # NoneIndex THEN 295
                ELSE 0
       IN  IF f \in {250, 273, 279}
           THEN Raise(f) /\ UNCHANGED <<locals, callvars>>
           ELSE IF f # 0
           THEN \* the token is already added when the look-ahead fails
                /\ Raise(f)
                /\ name_attributes' = name_attributes \cup {name_attr}
                /\ name_attribute_begin_index' = NoneIndex
                /\ UNCHANGED <<callvars, resp, hierarchy_delimeter,
                               hierarchy_delimiter, name, i, state,
                               hierarchy_delimiter_begin_index,
                               name_begin_index>>
           ELSE IF At(resp, i) = <<SP>>
           THEN /\ name_attributes' = name_attributes \cup {name_attr}
                /\ state' = "READ_NAME_ATTRIBUTE_BEGIN"
                /\ i' = i + 1
                /\ UNCHANGED <<pc, raised, callvars, resp, hierarchy_delimeter,
                               hierarchy_delimiter, name,
                               name_attribute_begin_index,
                               hierarchy_delimiter_begin_index,
                               name_begin_index>>
           ELSE IF At(resp, i) = <<RPAREN>>
           THEN /\ name_attributes' = name_attributes \cup {name_attr}
                /\ hierarchy_delimiter_begin_index' = i + 3
                /\ state' = "READ_HIERARCHY_DELIMITER_INSIDE"
                /\ i' = i + 3
                /\ UNCHANGED <<pc, raised, callvars, resp, hierarchy_delimeter,
                               hierarchy_delimiter, name, name_begin_index,
                               name_attribute_begin_index>>
           ELSE /\ i' = i + 1
                /\ UNCHANGED <<pc, raised, callvars, resp, name_attributes,
                               hierarchy_delimeter, hierarchy_delimiter, name,
                               state, name_attribute_begin_index,
                               hierarchy_delimiter_begin_index,
                               name_begin_index>>

READ_NAME_ATTRIBUTE_INSIDE ==
    /\ pc = "while"
    /\ state = "READ_NAME_ATTRIBUTE_INSIDE"
    /\ LET name_attr == NameAttr(resp, name_attribute_begin_index, i)
           f == IF ~LoopHeadOk THEN 250
                ELSE IF ~InsideOk THEN 273
                ELSE IF At(resp, i) \notin {<<SP>>, <<RPAREN>>} THEN 0
                ELSE IF ~NotYetSeen(name_attr, name_attributes) THEN 279
                ELSE IF At(resp, i) = <<SP>> THEN 0
                ELSE IF At(resp, i + 1) # <<SP>> THEN 292
                ELSE IF At(resp, i + 2) # <<DQUOTE>> THEN 293
                ELSE IF hierarchy_delimiter_begin_index # NoneIndex THEN 295
                ELSE 0
       IN  IF f \in {250, 273, 279}
           THEN Raise(f) /\ UNCHANGED <<locals, callvars>>
           ELSE IF f # 0
           THEN \* the token is already added when the look-ahead fails
                /\ Raise(f)
                /\ name_attributes' = name_attributes \cup {name_attr}
                /\ name_attribute_begin_index' = NoneIndex
                /\ UNCHANGED <<callvars, resp, hierarchy_delimeter,
                               hierarchy_delimiter, name, i, state,
                               hierarchy_delimiter_begin_index,
                               name_begin_index>>
           ELSE IF At(resp, i) = <<SP>>
           THEN /\ name_attributes' = name_attributes \cup {name_attr}
                /\ name_attribute_begin_index' = NoneIndex
                /\ state' = "READ_NAME_ATTRIBUTE_BEGIN"
                /\ i' = i + 1
                /\ UNCHANGED <<pc, raised, callvars, resp, hierarchy_delimeter,
                               hierarchy_delimiter, name,
                               hierarchy_delimiter_begin_index,
                               name_begin_index>>
           ELSE IF At(resp, i) = <<RPAREN>>
           THEN /\ name_attributes' = name_attributes \cup {name_attr}
                /\ name_attribute_begin_index' = NoneIndex
                /\ hierarchy_delimiter_begin_index' = i + 3
                /\ state' = "READ_HIERARCHY_DELIMITER_INSIDE"
                /\ i' = i + 3
                /\ UNCHANGED <<pc, raised, callvars, resp, hierarchy_delimeter,
                               hierarchy_delimiter, name, name_begin_index>>
           ELSE /\ i' = i + 1
                /\ UNCHANGED <<pc, raised, callvars, resp, name_attributes,
                               hierarchy_delimeter, hierarchy_delimiter, name,
                               state, name_attribute_begin_index,
                               hierarchy_delimiter_begin_index,
                               name_begin_index>>

\* DelimiterOf that binds hierarchy_delimiter only while it is not yet bound.
DelimiterOf_OnlyWhenUnbound(s, begin, at) ==
    IF hierarchy_delimiter = Unbound THEN Slice(s, begin, at)
    ELSE hierarchy_delimiter

\* hierarchy_delimiter = resp[hierarchy_delimiter_begin_index:i]
DelimiterOf(s, begin, at) == Slice(s, begin, at)

\* READ_HIERARCHY_DELIMITER_INSIDE without the two asserts that look ahead of
\* the closing quote.
READ_HIERARCHY_DELIMITER_INSIDE_NoLookAhead ==
    /\ pc = "while"
    /\ state = "READ_HIERARCHY_DELIMITER_INSIDE"
    /\ LET f == IF ~LoopHeadOk THEN 250
                ELSE IF ~InsideOk THEN 306
                ELSE IF At(resp, i) # <<DQUOTE>> THEN 0
                ELSE IF hierarchy_delimeter # NoneBytes THEN 313
                ELSE IF name_begin_index # NoneIndex THEN 317
                ELSE 0
       IN  IF f \in {250, 306, 313}
           THEN Raise(f) /\ UNCHANGED <<locals, callvars>>
           ELSE IF f = 317
           THEN /\ Raise(f)
                /\ hierarchy_delimiter' =
                      DelimiterOf(resp, hierarchy_delimiter_begin_index, i)
                /\ hierarchy_delimiter_begin_index' = NoneIndex
                /\ UNCHANGED <<callvars, resp, name_attributes,
                               hierarchy_delimeter, name, i, state,
                               name_attribute_begin_index, name_begin_index>>
           ELSE IF At(resp, i) = <<DQUOTE>>
           THEN /\ hierarchy_delimiter' =
                      DelimiterOf(resp, hierarchy_delimiter_begin_index, i)
                /\ hierarchy_delimiter_begin_index' = NoneIndex
                /\ name_begin_index' = i + 3
                /\ state' = "READ_NAME_INSIDE"
                /\ i' = i + 3
                /\ UNCHANGED <<pc, raised, callvars, resp, name_attributes,
                               hierarchy_delimeter, name,
                               name_attribute_begin_index>>
           ELSE /\ i' = i + 1
                /\ UNCHANGED <<pc, raised, callvars, resp, name_attributes,
                               hierarchy_delimeter, hierarchy_delimiter, name,
                               state, name_attribute_begin_index,
                               hierarchy_delimiter_begin_index,
                               name_begin_index>>

READ_HIERARCHY_DELIMITER_INSIDE ==
    /\ pc = "while"
    /\ state = "READ_HIERARCHY_DELIMITER_INSIDE"
    /\ LET f == IF ~LoopHeadOk THEN 250
                ELSE IF ~InsideOk THEN 306
                ELSE IF At(resp, i) # <<DQUOTE>> THEN 0
                ELSE IF At(resp, i + 1) # <<SP>> THEN 310
                ELSE IF At(resp, i + 2) # <<DQUOTE>> THEN 311
                ELSE IF hierarchy_delimeter # NoneBytes THEN 313
                ELSE IF name_begin_index # NoneIndex THEN 317
                ELSE 0
       IN  IF f \in {250, 306, 310, 311, 313}
           THEN Raise(f) /\ UNCHANGED <<locals, callvars>>
           ELSE IF f = 317
           THEN /\ Raise(f)
                /\ hierarchy_delimiter' =
                      DelimiterOf(resp, hierarchy_delimiter_begin_index, i)
                /\ hierarchy_delimiter_begin_index' = NoneIndex
                /\ UNCHANGED <<callvars, resp, name_attributes,
                               hierarchy_delimeter, name, i, state,
                               name_attribute_begin_index, name_begin_index>>
           ELSE IF At(resp, i) = <<DQUOTE>>
           THEN /\ hierarchy_delimiter' =
                      DelimiterOf(resp, hierarchy_delimiter_begin_index, i)
                /\ hierarchy_delimiter_begin_index' = NoneIndex
                /\ name_begin_index' = i + 3
                /\ state' = "READ_NAME_INSIDE"
                /\ i' = i + 3
                /\ UNCHANGED <<pc, raised, callvars, resp, name_attributes,
                               hierarchy_delimeter, name,
                               name_attribute_begin_index>>
           ELSE /\ i' = i + 1
                /\ UNCHANGED <<pc, raised, callvars, resp, name_attributes,
                               hierarchy_delimeter, hierarchy_delimiter, name,
                               state, name_attribute_begin_index,
                               hierarchy_delimiter_begin_index,
                               name_begin_index>>

\* NameOf with an empty name turned into None.
NameOf_EmptyIsNone(s, begin, at) ==
    IF Slice(s, begin, at) = <<>> THEN NoneBytes ELSE Slice(s, begin, at)

\* name = resp[name_begin_index:i]
NameOf(s, begin, at) == Slice(s, begin, at)

\* READ_NAME_INSIDE without the i += 1 that steps over the closing quote.
READ_NAME_INSIDE_QuoteNotConsumed ==
    /\ pc = "while"
    /\ state = "READ_NAME_INSIDE"
    /\ LET f == IF ~LoopHeadOk THEN 250
                ELSE IF ~InsideOk THEN 328
                ELSE IF At(resp, i) # <<DQUOTE>> THEN 0
                ELSE IF i + 1 # Len(resp) THEN 332
                ELSE IF name # NoneBytes THEN 334
                ELSE 0
       IN  IF f # 0
           THEN Raise(f) /\ UNCHANGED <<locals, callvars>>
           ELSE IF At(resp, i) = <<DQUOTE>>
           THEN /\ name' = NameOf(resp, name_begin_index, i)
                /\ name_begin_index' = NoneIndex
                /\ state' = "DONE"
                /\ UNCHANGED <<pc, raised, callvars, resp, name_attributes,
                               hierarchy_delimeter, hierarchy_delimiter, i,
                               name_attribute_begin_index,
                               hierarchy_delimiter_begin_index>>
           ELSE /\ i' = i + 1
                /\ UNCHANGED <<pc, raised, callvars, resp, name_attributes,
                               hierarchy_delimeter, hierarchy_delimiter, name,
                               state, name_attribute_begin_index,
                               hierarchy_delimiter_begin_index,
                               name_begin_index>>

\* READ_NAME_INSIDE without the assert that the closing quote is the last byte.
READ_NAME_INSIDE_NoLastByteCheck ==
    /\ pc = "while"
    /\ state = "READ_NAME_INSIDE"
    /\ LET f == IF ~LoopHeadOk THEN 250
                ELSE IF ~InsideOk THEN 328
                ELSE IF At(resp, i) # <<DQUOTE>> THEN 0
                ELSE IF name # NoneBytes THEN 334
                ELSE 0
       IN  IF f # 0
           THEN Raise(f) /\ UNCHANGED <<locals, callvars>>
           ELSE IF At(resp, i) = <<DQUOTE>>
           THEN /\ name' = NameOf(resp, name_begin_index, i)
                /\ name_begin_index' = NoneIndex
                /\ state' = "DONE"
                /\ i' = i + 1
                /\ UNCHANGED <<pc, raised, callvars, resp, name_attributes,
                               hierarchy_delimeter, hierarchy_delimiter,
                               name_attribute_begin_index,
                               hierarchy_delimiter_begin_index>>
           ELSE /\ i' = i + 1
                /\ UNCHANGED <<pc, raised, callvars, resp, name_attributes,
                               hierarchy_delimeter, hierarchy_delimiter, name,
                               state, name_attribute_begin_index,
                               hierarchy_delimiter_begin_index,
                               name_begin_index>>

READ_NAME_INSIDE ==
    /\ pc = "while"
    /\ state = "READ_NAME_INSIDE"
    /\ LET f == IF ~LoopHeadOk THEN 250
                ELSE IF ~InsideOk THEN 328
                ELSE IF At(resp, i) # <<DQUOTE>> THEN 0
                ELSE IF i + 1 # Len(resp) THEN 332
                ELSE IF name # NoneBytes THEN 334
                ELSE 0
       IN  IF f # 0
           THEN Raise(f) /\ UNCHANGED <<locals, callvars>>
           ELSE IF At(resp, i) = <<DQUOTE>>
           THEN /\ name' = NameOf(resp, name_begin_index, i)
                /\ name_begin_index' = NoneIndex
                /\ state' = "DONE"
                /\ i' = i + 1
                /\ UNCHANGED <<pc, raised, callvars, resp, name_attributes,
                               hierarchy_delimeter, hierarchy_delimiter,
                               name_attribute_begin_index,
                               hierarchy_delimiter_begin_index>>
           ELSE /\ i' = i + 1
                /\ UNCHANGED <<pc, raised, callvars, resp, name_attributes,
                               hierarchy_delimeter, hierarchy_delimiter, name,
                               state, name_attribute_begin_index,
                               hierarchy_delimiter_begin_index,
                               name_begin_index>>

\* The record appended for one line.
Mailbox(attrs, delim, nm) ==
    [name_attributes |-> attrs, hierarchy_delimiter |-> delim, name |-> nm]

\* The DONE state breaks out of the loop; the three asserts after the loop
\* and the append follow in the same step. Reading hierarchy_delimiter while
\* it is unbound would raise UnboundLocalError on the line of the read.
DONE ==
    /\ pc = "while"
    /\ state = "DONE"
    /\ LET f == IF ~LoopHeadOk THEN 250
                ELSE IF i # Len(resp) THEN 346
                ELSE IF name_attribute_begin_index # NoneIndex THEN 349
                ELSE IF hierarchy_delimiter_begin_index # NoneIndex THEN 350
                ELSE IF name_begin_index # NoneIndex THEN 351
                ELSE IF hierarchy_delimiter = Unbound THEN 355
                ELSE 0
       IN  IF f # 0
           THEN Raise(f) /\ UNCHANGED <<locals, callvars>>
           ELSE /\ mailboxes' = Append(mailboxes,
                      Mailbox(name_attributes, hierarchy_delimiter, name))
                /\ r' = r + 1
                /\ pc' = "for"
                /\ UNCHANGED <<raised, result, responses, returned, locals,
                               statusvars>>

Next ==
    \/ ListCall
    \/ ForResp
    \/ Return
    \/ INIT
    \/ READ_NAME_ATTRIBUTE_BEGIN
    \/ READ_NAME_ATTRIBUTE_INSIDE
    \/ READ_HIERARCHY_DELIMITER_INSIDE
    \/ READ_NAME_INSIDE
    \/ DONE

Spec == Init /\ [][Next]_vars

TypeOK ==
    /\ pc \in {"idle", "for", "while", "raised", "returned"}
    /\ i \in 0..20
    /\ raised.line \in 0..400

(***************************************************************************)
(* Client.status                                                           *)
(***************************************************************************)
MaxNames == 2

\* The status data items the docstring of Client.status lists as requestable.
DocumentedNames ==
    {"MESSAGES", "UIDNEXT", "UIDVALIDITY", "UNSEEN", "DELETED", "SIZE"}

\* The list literal of the membership assert. 'UIDNEXT' and 'UIDVALIDITY' are
\* written without a comma between them: two adjacent string literals are
\* one literal, their concatenation.
AcceptedNames ==
    {"MESSAGES", "UIDNEXT" \o "UIDVALIDITY", "UNSEEN", "DELETED", "SIZE"}

\* The str arguments drawn for the calls.
ItemNames == DocumentedNames \cup {"UIDNEXTUIDVALIDITY", "RECENT"}
MailboxNames == {"INBOX", "Sent"}

\* ' '.join(names)
RECURSIVE JoinNames(_)
JoinNames(ns) ==
    IF Len(ns) = 0 THEN ""
    ELSE IF Len(ns) = 1 THEN ns[1]
    ELSE ns[1] \o " " \o JoinNames(Tail(ns))

listvars == <<pc, result, responses, mailboxes, r, locals, raised, returned>>

\* status(mailbox_name, status_data_item_names_list) is entered; the two
\* isinstance asserts on the arguments hold for the values drawn here.
StatusCall ==
    /\ status_pc = "idle"
    /\ \E m \in MailboxNames, ns \in SeqsUpTo(ItemNames, MaxNames) :
          /\ mailbox_name' = m
          /\ status_data_item_names_list' = ns
    /\ status_n' = 1
    /\ status_pc' = "names"
    /\ UNCHANGED <<status_data_item_names_str, status_request, status_raised,
                   status_returned, listvars>>

\* One iteration of "for name in status_data_item_names_list": the name is a
\* str, and the assert on its membership in the list literal.
StatusName ==
    /\ status_pc = "names"
    /\ status_n <= Len(status_data_item_names_list)
    /\ IF status_data_item_names_list[status_n] \notin AcceptedNames
       THEN /\ status_pc' = "raised"
            /\ status_raised' =
                  [type |-> "AssertionError", line |-> 459, args |-> <<>>]
            /\ UNCHANGED status_n
       ELSE /\ status_n' = status_n + 1
            /\ UNCHANGED <<status_pc, status_raised>>
    /\ UNCHANGED <<mailbox_name, status_data_item_names_list,
                   status_data_item_names_str, status_request,
                   status_returned, listvars>>

\* After the loop: the names string is built, the kernel is called with it,
\* and its reply is returned. The assert on the result holds for the values
\* drawn here.
StatusForward ==
    /\ status_pc = "names"
    /\ status_n > Len(status_data_item_names_list)
    /\ status_data_item_names_str' =
          "(" \o JoinNames(status_data_item_names_list) \o ")"
    /\ status_request' =
          <<[mailbox |-> mailbox_name, names |-> status_data_item_names_str']>>
    /\ \E res \in ResultCodes, response \in {"None", "data"} :
          status_returned' = <<res, response>>
    /\ status_pc' = "returned"
    /\ UNCHANGED <<mailbox_name, status_data_item_names_list, status_n,
                   status_raised, listvars>>

StatusNext ==
    \/ StatusCall
    \/ StatusName
    \/ StatusForward

StatusSpec == Init /\ [][StatusNext]_vars

(***************************************************************************)
(* Properties                                                              *)
(***************************************************************************)
\* Line j of the reply raised: the call was left while parsing it.
RaisedOn(j) == pc = "raised" /\ r = j
\* Line j of the reply produced an entry.
EntryOf(j) == Len(mailboxes) >= j
\* The parse of line j is over, one way or the other.
Over(j) == r > j \/ RaisedOn(j)

Range(ts) == {ts[a] : a \in 1..Len(ts)}

C1Forms ==
    { [line |-> Build(ts, Quote(<<c>>), Quote(n)),
       entry |-> Mailbox(Range(ts), <<c>>, n)] :
        ts \in PlainAttrSeqs,
        c \in PlainDelims,
        n \in PlainNames }

\* C1: a line '(' attr (SP attr)* ')' SP DQUOTE c DQUOTE SP DQUOTE n DQUOTE with
\* pairwise distinct backslash-alphabetic attrs, one delimiter character c
\* other than DQUOTE and a name n without DQUOTE and backslash never raises,
\* and once parsed its entry holds exactly the set of the attr tokens (with
\* their backslash), the delimiter c and the name n byte for byte.
C1_WellFormedLineYieldsItsFields ==
    \A j \in 1..Len(responses) : \A f \in C1Forms :
        responses[j] = f.line =>
            /\ ~RaisedOn(j)
            /\ r > j => EntryOf(j) /\ mailboxes[j] = f.entry

C1_Witness ==
    /\ pc = "returned"
    /\ responses = <<Build(<<<<BSLASH, "B">>, <<BSLASH, "A">>>>,
                           Quote(<<SP>>), Quote(<<"*", "%">>))>>
    /\ returned[2] = <<Mailbox(AlphaToks, <<SP>>, <<"*", "%">>)>>

\* The data-model invariants of an entry: the delimiter is absent or one
\* character long, the name is present.
EntryInvariants(m) ==
    /\ m.hierarchy_delimiter = NoneBytes \/ Len(m.hierarchy_delimiter) = 1
    /\ m.name # NoneBytes

\* C2: for every input line that is a byte sequence the parse ends in an entry that satisfies the
\* data-model invariants or in an error value; no assertion or exception
\* ever leaves the parse.
C2_NeverAnUnhandledFault ==
    /\ pc = "raised" => resp = NoneBytes
    /\ \A j \in 1..Len(mailboxes) : EntryInvariants(mailboxes[j])

\* C3: the scan of a line terminates: every iteration that stays in the loop
\* moves the scan position strictly forward and never past the end of the
\* line, and an iteration that leaves the loop does not move it back.
C3_ScanAdvancesAndIsBounded ==
    [][pc = "while" =>
          /\ i' >= i
          /\ i' <= Len(resp)
          /\ pc' = "while" => i' > i /\ resp' = resp]_vars

C3_Witness ==
    /\ pc = "while"
    /\ state = "DONE"
    /\ i = Len(resp)
    /\ Len(resp) >= 14

C4Lines ==
    {Build(<<>>, Quote(<<c>>), Quote(n)) : c \in PlainDelims, n \in PlainNames}

\* C4: a line that starts with '()' and goes on with a well-formed delimiter
\* and name never raises, and its entry has the empty attribute set.
C4_EmptyAttributeListAccepted ==
    \A j \in 1..Len(responses) :
        responses[j] \in C4Lines =>
            /\ ~RaisedOn(j)
            /\ r > j => EntryOf(j) /\ mailboxes[j].name_attributes = {}

C5Forms ==
    { [line |-> Build(ts, NIL, Quote(n)),
       entry |-> Mailbox(Range(ts), NoneBytes, n)] :
        ts \in PlainAttrSeqs,
        n \in PlainNames }

\* C5: a line whose delimiter field is the unquoted token NIL never raises,
\* and its entry has no hierarchy delimiter, with attributes and name as for
\* a quoted delimiter.
C5_NilDelimiterAccepted ==
    \A j \in 1..Len(responses) : \A f \in C5Forms :
        responses[j] = f.line =>
            /\ ~RaisedOn(j)
            /\ r > j => EntryOf(j) /\ mailboxes[j] = f.entry

\* Names that need an escape: they hold a DQUOTE or a backslash.
EscapedNames ==
    {n \in SeqsUpTo(NameChars, MaxName) :
        \E a \in 1..Len(n) : n[a] \in {DQUOTE, BSLASH}}

\* C6: a name field that encodes DQUOTE as backslash-DQUOTE and backslash as
\* backslash-backslash never raises, and the entry's name holds one character
\* for every escape pair.
C6_EscapePairsDecoded ==
    \A j \in 1..Len(responses) : \A n \in EscapedNames :
        responses[j] = Build(<<<<BSLASH, "A">>>>, Quote(<<"/">>), Quote(Escape(n))) =>
            /\ ~RaisedOn(j)
            /\ r > j => EntryOf(j) /\ mailboxes[j].name = n

\* Name contents with a backslash before a byte that is neither DQUOTE nor
\* backslash (and no DQUOTE or escape pair before it).
InvalidEscapes ==
    {n \in SeqsUpTo(NameChars \ {DQUOTE}, MaxName) :
        \E a \in 1..(Len(n) - 1) :
            /\ n[a] = BSLASH
            /\ n[a + 1] # BSLASH
            /\ \A b \in 1..(a - 1) : n[b] # BSLASH}
C7Lines ==
    {Build(ts, Quote(<<"/">>), Quote(n)) :
        ts \in {<<<<BSLASH, "A">>>>}, n \in InvalidEscapes}

\* C7: a line whose name has a backslash before a byte other than DQUOTE and
\* backslash is rejected: it never produces an entry.
C7_InvalidEscapeRejected ==
    \A j \in 1..Len(responses) :
        responses[j] \in C7Lines => ~EntryOf(j)

\* C8: the hierarchy delimiter of every entry, when present, is exactly one
\* character long; a quoted delimiter field that is empty or holds two or
\* more characters yields no entry.
C8_DelimiterIsOneCharacter ==
    \A j \in 1..Len(mailboxes) :
        \/ mailboxes[j].hierarchy_delimiter = NoneBytes
        \/ Len(mailboxes[j].hierarchy_delimiter) = 1

AssertNotDuplicate == 279

C9Lines ==
    {Build(ts, d, n) :
        ts \in {t \in AttrSeqs : ~Distinct(t)}, d \in DelimFields, n \in NameFields}

\* C9: a line whose attribute list holds the same token twice is rejected by
\* the duplicate check: it never produces an entry, the scan never goes on
\* past the attribute list, and the assertion that ends the parse is the one
\* on the duplicate.
C9_DuplicateAttributeRejected ==
    \A j \in 1..Len(responses) :
        responses[j] \in C9Lines =>
            /\ ~EntryOf(j)
            /\ r <= j
            /\ RaisedOn(j) => raised.line = AssertNotDuplicate
            /\ r = j /\ pc \in {"while", "raised"} =>
                  state \in {"INIT", "READ_NAME_ATTRIBUTE_BEGIN",
                             "READ_NAME_ATTRIBUTE_INSIDE"}

C9_Witness ==
    /\ pc = "raised"
    /\ raised.line = AssertNotDuplicate
    /\ resp \in C9Lines
    /\ mailboxes = <<>>

\* C10: every failure of a parse is reported as a value that carries the byte
\* offset at which it was detected, and for a duplicated attribute that
\* offset is the one of the second occurrence of the token.
C10_FailureCarriesOffset ==
    pc = "raised" /\ resp # NoneBytes =>
        /\ Len(raised.args) = 1
        /\ raised.args[1] =
              IF raised.line = AssertNotDuplicate
              THEN name_attribute_begin_index
              ELSE i

AssertQuoteIsLast == 332

\* C11: the DQUOTE that ends the name is the last byte of the line: the DONE
\* state is only ever entered with the scan position at the end of the line,
\* and a line the scan accepts, followed by one or more bytes, is rejected at
\* the assert on the closing quote and yields no entry.
C11_ClosingQuoteIsLastByte ==
    /\ pc = "while" /\ state = "DONE" => i = Len(resp)
    /\ \A j \in 1..Len(mailboxes) :
          responses[j][Len(responses[j])] = DQUOTE
    /\ \A j \in 1..Len(responses) :
          responses[j] \in PlainTrailedLines =>
              /\ ~EntryOf(j)
              /\ r <= j
              /\ RaisedOn(j) => raised.line = AssertQuoteIsLast

C11_Witness ==
    /\ pc = "raised"
    /\ raised.line = AssertQuoteIsLast
    /\ resp = Build(<<<<BSLASH, "A">>>>, Quote(<<"/">>), Quote(<<"X">>))
                \o <<SP, DQUOTE, DQUOTE>>
    /\ i = 11

AssertInsideName == 328

\* C12: a line that ends inside the name (opening quote consumed, no closing
\* DQUOTE) is rejected when the scan reaches the end of the line in the name
\* state, and yields no entry.
C12_UnterminatedNameRejected ==
    \A j \in 1..Len(responses) :
        responses[j] \in UnterminatedLines =>
            /\ ~EntryOf(j)
            /\ r <= j
            /\ RaisedOn(j) =>
                  /\ raised.line = AssertInsideName
                  /\ state = "READ_NAME_INSIDE"
                  /\ i = Len(resp)

C12_Witness ==
    /\ pc = "raised"
    /\ raised.line = AssertInsideName
    /\ resp = Build(<<<<BSLASH, "A">>>>, Quote(<<"/">>), <<DQUOTE, "X", BSLASH>>)
    /\ i = Len(resp)

EmptyNameLines ==
    {Build(ts, Quote(<<c>>), Quote(<<>>)) : ts \in PlainAttrSeqs, c \in PlainDelims}

\* C13: the name of every entry is present, never None; a line whose name
\* field is the empty quoted string is accepted and its entry has a present
\* name of length zero.
C13_NameAlwaysPresent ==
    /\ \A j \in 1..Len(mailboxes) :
          mailboxes[j].name \notin {NoneBytes, Unbound}
    /\ \A j \in 1..Len(responses) :
          responses[j] \in EmptyNameLines =>
              /\ ~RaisedOn(j)
              /\ r > j => EntryOf(j) /\ mailboxes[j].name = <<>>

C13_Witness ==
    /\ pc = "returned"
    /\ responses = <<Build(<<<<BSLASH, "A">>>>, Quote(<<"/">>), Quote(<<>>))>>
    /\ Len(returned[2]) = 1
    /\ returned[2][1].name = <<>>

\* The tokens of an attribute set in some order.
RECURSIVE SetToSeq(_)
SetToSeq(S) ==
    IF S = {} THEN <<>>
    ELSE LET t == CHOOSE x \in S : TRUE IN <<t>> \o SetToSeq(S \ {t})

\* The line that writes an entry back with the quoting rules of the grammar:
\* NIL for an absent delimiter, a backslash before every DQUOTE and backslash
\* of the name.
Serialise(m) ==
    Build(SetToSeq(m.name_attributes),
          IF m.hierarchy_delimiter = NoneBytes THEN NIL
          ELSE Quote(m.hierarchy_delimiter),
          Quote(Escape(m.name)))

\* C14: round trip: when a line of the grammar (names with backslash and
\* DQUOTE written as escape pairs included) has produced an entry and the
\* re-serialised entry is parsed, the second parse does not raise and its
\* entry equals the first.
C14_RoundTrip ==
    \A j, k \in 1..Len(responses) :
        /\ j < k
        /\ EntryOf(j)
        /\ \E n \in SeqsUpTo(NameChars, MaxName) : responses[j] = RoundTripLine(n)
        /\ responses[k] = Serialise(mailboxes[j])
        => /\ ~RaisedOn(k)
           /\ EntryOf(k) => mailboxes[k] = mailboxes[j]

\* The scan of one line as a function of the line alone: the loop of
\* Client.list run on the locals of a fresh call (hierarchy_delimiter not yet
\* bound). L holds the locals; the result is the line of the statement that
\* raises (0 when none does) and the entry that is appended.
NoEntry == [name_attributes |-> {}, hierarchy_delimiter |-> Unbound, name |-> Unbound]
Fails(line) == [line |-> line, entry |-> NoEntry]

RECURSIVE Scan(_, _)
Scan(s, L) ==
    LET c == At(s, L.i)
        inside == 0 < L.i /\ L.i < Len(s)
    IN
    IF ~(0 <= L.i /\ L.i <= Len(s)) THEN Fails(250)
    ELSE IF L.state = "INIT" THEN
        IF 0 # L.i THEN Fails(254)
        ELSE IF c # <<LPAREN>> THEN Fails(255)
        ELSE Scan(s, [L EXCEPT !.state = "READ_NAME_ATTRIBUTE_BEGIN", !.i = 1])
    ELSE IF L.state = "READ_NAME_ATTRIBUTE_BEGIN" THEN
        IF ~inside THEN Fails(262)
        ELSE IF c # <<BSLASH>> THEN Fails(263)
        ELSE IF L.nabi # NoneIndex THEN Fails(265)
        ELSE Scan(s, [L EXCEPT !.nabi = L.i,
                               !.state = "READ_NAME_ATTRIBUTE_INSIDE",
                               !.i = L.i + 1])
    ELSE IF L.state = "READ_NAME_ATTRIBUTE_INSIDE" THEN
        IF ~inside THEN Fails(273)
        ELSE IF c \notin {<<SP>>, <<RPAREN>>} THEN Scan(s, [L EXCEPT !.i = L.i + 1])
        ELSE IF Slice(s, L.nabi, L.i) \in L.attrs THEN Fails(279)
        ELSE IF c = <<SP>> THEN
            Scan(s, [L EXCEPT !.attrs = L.attrs \cup {Slice(s, L.nabi, L.i)},
                              !.nabi = NoneIndex,
                              !.state = "READ_NAME_ATTRIBUTE_BEGIN",
                              !.i = L.i + 1])
        ELSE IF At(s, L.i + 1) # <<SP>> THEN Fails(292)
        ELSE IF At(s, L.i + 2) # <<DQUOTE>> THEN Fails(293)
        ELSE IF L.hdbi # NoneIndex THEN Fails(295)
        ELSE Scan(s, [L EXCEPT !.attrs = L.attrs \cup {Slice(s, L.nabi, L.i)},
                               !.nabi = NoneIndex,
                               !.hdbi = L.i + 3,
                               !.state = "READ_HIERARCHY_DELIMITER_INSIDE",
                               !.i = L.i + 3])
    ELSE IF L.state = "READ_HIERARCHY_DELIMITER_INSIDE" THEN
        IF ~inside THEN Fails(306)
        ELSE IF c # <<DQUOTE>> THEN Scan(s, [L EXCEPT !.i = L.i + 1])
        ELSE IF At(s, L.i + 1) # <<SP>> THEN Fails(310)
        ELSE IF At(s, L.i + 2) # <<DQUOTE>> THEN Fails(311)
        ELSE IF L.nbi # NoneIndex THEN Fails(317)
        ELSE Scan(s, [L EXCEPT !.delim = Slice(s, L.hdbi, L.i),
                               !.hdbi = NoneIndex,
                               !.nbi = L.i + 3,
                               !.state = "READ_NAME_INSIDE",
                               !.i = L.i + 3])
    ELSE IF L.state = "READ_NAME_INSIDE" THEN
        IF ~inside THEN Fails(328)
        ELSE IF c # <<DQUOTE>> THEN Scan(s, [L EXCEPT !.i = L.i + 1])
        ELSE IF L.i + 1 # Len(s) THEN Fails(332)
        ELSE IF L.name # NoneBytes THEN Fails(334)
        ELSE Scan(s, [L EXCEPT !.name = Slice(s, L.nbi, L.i),
                               !.nbi = NoneIndex,
                               !.state = "DONE",
                               !.i = L.i + 1])
    ELSE \* DONE
        IF L.i # Len(s) THEN Fails(346)
        ELSE IF L.nabi # NoneIndex THEN Fails(349)
        ELSE IF L.hdbi # NoneIndex THEN Fails(350)
        ELSE IF L.nbi # NoneIndex THEN Fails(351)
        ELSE IF L.delim = Unbound THEN Fails(355)
        ELSE [line |-> 0, entry |-> Mailbox(L.attrs, L.delim, L.name)]

ParseLine(s) ==
    Scan(s, [state |-> "INIT", i |-> 0, attrs |-> {}, nabi |-> NoneIndex,
             hdbi |-> NoneIndex, nbi |-> NoneIndex, delim |-> Unbound,
             name |-> NoneBytes])

\* C15: the outcome of a line depends on the bytes of the line only: at
\* whatever position of a reply a line is parsed, whatever was parsed before
\* it, its entry or the statement that raises is the one that the scan of
\* that line alone gives, and so two equal lines give equal entries.
C15_OutcomeDependsOnLineOnly ==
    pc # "while" =>
        /\ \A j \in 1..Len(responses) :
              responses[j] # NoneBytes =>
                  /\ r > j => EntryOf(j)
                  /\ EntryOf(j) =>
                        /\ ParseLine(responses[j]).line = 0
                        /\ ParseLine(responses[j]).entry = mailboxes[j]
                  /\ RaisedOn(j) => ParseLine(responses[j]).line = raised.line
        /\ \A j, k \in 1..Len(mailboxes) :
              responses[j] = responses[k] => mailboxes[j] = mailboxes[k]

C15_Witness ==
    /\ pc = "raised"
    /\ r = 2
    /\ responses[1] = Build(<<<<BSLASH, "A">>, <<BSLASH, "B">>>>, Quote(<<>>),
                            Quote(<<"X", "X">>))
    /\ responses[2] = Build(<<<<BSLASH, "A">>>>, NIL, Quote(<<"X">>))
    /\ hierarchy_delimiter = <<>>
    /\ raised.line = ParseLine(responses[2]).line

Alpha == {"A", "B", "I", "L", "N", "X"}

\* C16: every attribute token of an entry is a backslash followed by one or
\* more alphabetic characters; a line with a token that is a bare backslash
\* or holds a digit, a DQUOTE or a second backslash yields no entry.
C16_AttributeIsBackslashAlpha ==
    \A j \in 1..Len(mailboxes) : \A t \in mailboxes[j].name_attributes :
        /\ Len(t) >= 2
        /\ t[1] = BSLASH
        /\ \A a \in 2..Len(t) : t[a] \in Alpha

AssertOpenParen == 255

\* C17: a line whose first byte is not '(' (the empty line included) is
\* rejected in the initial state, at offset 0, by the assert on the opening
\* parenthesis, and yields no entry.
C17_MissingOpenParenRejected ==
    \A j \in 1..Len(responses) :
        responses[j] # NoneBytes /\ At(responses[j], 0) # <<LPAREN>> =>
            /\ ~EntryOf(j)
            /\ r <= j
            /\ r = j /\ pc \in {"while", "raised"} => state = "INIT" /\ i = 0
            /\ RaisedOn(j) => raised.line = AssertOpenParen

C17_Witness ==
    /\ pc = "raised"
    /\ raised.line = AssertOpenParen
    /\ resp = <<>>
    /\ state = "INIT"

\* Lines with no SP or two SP at one of the three places where the grammar
\* has exactly one: between two attributes, between ')' and the delimiter
\* field, between the delimiter field and the name field.
WronglySpacedLines ==
    SpacedLines
      \ {Build(<<<<BSLASH, "A">>, <<BSLASH, "B">>>>, Quote(<<"/">>), Quote(<<"X">>))}

\* C18: exactly one SP separates the fields: a line with no SP or with two
\* or more between ')' and the delimiter field, between the delimiter field
\* and the opening name quote, or between two attribute tokens is rejected
\* and never yields an entry.
C18_ExactlyOneSpace ==
    \A j \in 1..Len(responses) :
        responses[j] \in WronglySpacedLines => ~EntryOf(j)

\* C19: a rejected line is reported and contributes nothing: an entry is
\* appended only by the DONE step of a line scanned to its last byte, the
\* call that raised has delivered nothing and holds no entry for the line it
\* raised on, nothing happens after the raise, and a call that returns hands
\* back one entry for every line.
C19_RejectedLineContributesNothing ==
    /\ [](pc = "raised" => returned = <<>> /\ Len(mailboxes) = r - 1)
    /\ [](pc = "returned" =>
            /\ raised = NotRaised
            /\ returned = <<result, mailboxes>>
            /\ Len(mailboxes) = Len(responses))
    /\ [][pc # "raised"]_vars
    /\ [][mailboxes' # mailboxes =>
            /\ pc = "while" /\ state = "DONE"
            /\ resp = responses[r] /\ i = Len(resp)
            /\ mailboxes' = Append(mailboxes,
                  Mailbox(name_attributes, hierarchy_delimiter, name))
            /\ r' = r + 1 /\ pc' = "for"]_vars

C19_Witness ==
    /\ pc = "raised"
    /\ r = 2
    /\ Len(mailboxes) = 1
    /\ returned = <<>>
    /\ resp = Build(<<<<BSLASH, "A">>, <<BSLASH, "A">>>>, Quote(<<"/">>),
                    Quote(<<"X">>))

\* The place of a state in the order of traversal.
Rank(st) ==
    CASE st = "INIT" -> 0
      [] st \in {"READ_NAME_ATTRIBUTE_BEGIN", "READ_NAME_ATTRIBUTE_INSIDE"} -> 1
      [] st = "READ_HIERARCHY_DELIMITER_INSIDE" -> 2
      [] st = "READ_NAME_INSIDE" -> 3
      [] st = "DONE" -> 4

\* C20: the states are traversed in order: the scan of a line starts in the
\* open-parenthesis state, a step stays in its group of states or moves to
\* the next one (open-paren, attribute states, delimiter, name, done), never
\* back and never past one; so no attribute state follows the delimiter
\* state, no delimiter state follows the name state, and done is entered
\* from the name state only.
C20_StatesInOrder ==
    /\ [][pc = "for" /\ pc' = "while" => state' = "INIT"]_vars
    /\ [][pc = "while" =>
            /\ Rank(state) <= Rank(state')
            /\ Rank(state') <= Rank(state) + 1
            /\ state' = "DONE" => state \in {"READ_NAME_INSIDE", "DONE"}
            /\ pc' # "while" => state' = state]_vars

C20_Witness ==
    /\ pc = "while"
    /\ state = "DONE"
    /\ name_attributes = {<<BSLASH, "A">>, <<BSLASH, "B">>}
    /\ r = 2

AssertLoopHead == 250
AssertDoneAtEnd == 346

\* C22: the asserts on the scan position at the head of the loop and in the
\* DONE state never fail: while a line is scanned 0 <= i <= len(line), a step
\* that moves the position by more than one byte (the jump over ')' SP DQUOTE
\* and the one over DQUOTE SP DQUOTE) does not move it past the end of the
\* line, the DONE state is only entered with i = len(line), and no call ends
\* at one of the two asserts.
C22_IndexAssertsNeverFail ==
    /\ [](pc = "while" => 0 <= i /\ i <= Len(resp))
    /\ [](pc = "while" /\ state = "DONE" => i = Len(resp))
    /\ [](raised.line \notin {AssertLoopHead, AssertDoneAtEnd})
    /\ [][pc = "while" /\ i' > i + 1 =>
            /\ state \in {"READ_NAME_ATTRIBUTE_INSIDE",
                           "READ_HIERARCHY_DELIMITER_INSIDE"}
            /\ i' <= Len(resp)]_vars

\* The jump over the delimiter's closing quote lands exactly on the end of
\* the line.
C22_Witness ==
    /\ pc = "while"
    /\ state = "READ_NAME_INSIDE"
    /\ name_begin_index = i
    /\ i = Len(resp)
    /\ resp = Build(<<<<BSLASH, "A">>>>, Quote(<<"/">>), <<DQUOTE>>)

AssertAttrBeginUnset == 265
AssertDelimBeginUnset == 295
AssertNameBeginUnset == 317
AssertAttrBeginCleared == 349
AssertDelimBeginCleared == 350
AssertNameBeginCleared == 351

\* A step binds the tracker to an index.
Assigned(old, new) == new # old /\ new # NoneIndex

\* C23: the asserts on the three begin-index trackers never fail: the DONE
\* state is only reached with the attribute, delimiter and name begin index
\* all None, each of the three is None in the state in which a step assigns
\* an index to it, and no call ends at one of the three asserts after the
\* loop or at one of the three asserts before an assignment.
C23_TrackersUnsetWhenChecked ==
    /\ [](pc = "while" /\ state = "DONE" =>
            /\ name_attribute_begin_index = NoneIndex
            /\ hierarchy_delimiter_begin_index = NoneIndex
            /\ name_begin_index = NoneIndex)
    /\ [](raised.line \notin
            {AssertAttrBeginUnset, AssertDelimBeginUnset, AssertNameBeginUnset,
             AssertAttrBeginCleared, AssertDelimBeginCleared,
             AssertNameBeginCleared})
    /\ [][pc = "while" =>
            /\ Assigned(name_attribute_begin_index, name_attribute_begin_index')
                  => name_attribute_begin_index = NoneIndex
            /\ Assigned(hierarchy_delimiter_begin_index,
                        hierarchy_delimiter_begin_index')
                  => hierarchy_delimiter_begin_index = NoneIndex
            /\ Assigned(name_begin_index, name_begin_index')
                  => name_begin_index = NoneIndex]_vars

\* The loop is left through DONE after the attribute tracker was assigned and
\* cleared twice, the other two once.
C23_Witness ==
    /\ pc = "while"
    /\ state = "DONE"
    /\ resp = Build(<<<<BSLASH, "B">>, <<BSLASH, "A">>>>, Quote(<<SP>>),
                    Quote(<<"*">>))
    /\ name_attribute_begin_index = NoneIndex
    /\ hierarchy_delimiter_begin_index = NoneIndex
    /\ name_begin_index = NoneIndex

\* The fields of a line by their place in it (offsets from 0): the attribute
\* list lies between the first byte and the first ')', the delimiter between
\* the third byte after that ')' and the next DQUOTE, the name between the
\* third byte after that DQUOTE and the last byte of the line.
FirstFrom(s, c, from) ==
    CHOOSE a \in from..Len(s) :
        /\ At(s, a) = <<c>> \/ a = Len(s)
        /\ \A b \in from..(a - 1) : At(s, b) # <<c>>
CloseParenOf(s) == FirstFrom(s, RPAREN, 0)
DelimiterEndOf(s) == FirstFrom(s, DQUOTE, CloseParenOf(s) + 3)
AttributesIn(s) ==
    LET p == CloseParenOf(s)
        starts == {f \in 1..(p - 1) : f = 1 \/ At(s, f - 1) = <<SP>>}
        EndsOf(a) == {e \in (a + 1)..p :
                        /\ \A k \in a..(e - 1) : At(s, k) # <<SP>>
                        /\ e = p \/ At(s, e) = <<SP>>}
    IN  UNION {{Slice(s, a, b) : b \in EndsOf(a)} : a \in starts}
DelimiterIn(s) == Slice(s, CloseParenOf(s) + 3, DelimiterEndOf(s))
NameIn(s) == Slice(s, DelimiterEndOf(s) + 3, Len(s) - 1)

ReadOfDelimiter == 355

\* C24: a reply of n accepted lines returns exactly n entries in the order of
\* the lines, and the k-th entry holds the attributes, the delimiter and the
\* name that stand in the k-th line; the delimiter of an entry is assigned
\* during the scan of its own line: the step that enters the name state
\* assigns it from the line being scanned, from then on it is the delimiter
\* field of that line, and the append never reads it unbound.
C24_EntriesFollowTheirLines ==
    /\ [](pc = "returned" =>
            /\ Len(returned[2]) = Len(responses)
            /\ \A k \in 1..Len(responses) :
                  returned[2][k] = Mailbox(AttributesIn(responses[k]),
                                           DelimiterIn(responses[k]),
                                           NameIn(responses[k])))
    /\ [](pc = "while" /\ state \in {"READ_NAME_INSIDE", "DONE"} =>
            hierarchy_delimiter = DelimiterIn(resp))
    /\ [](raised.line # ReadOfDelimiter)
    /\ [][pc = "while" /\ state # "READ_NAME_INSIDE"
                       /\ state' = "READ_NAME_INSIDE" =>
            /\ resp = responses[r]
            /\ hierarchy_delimiter' =
                  Slice(resp, hierarchy_delimiter_begin_index, i)]_vars

\* Two accepted lines with different delimiters, returned in their order.
C24_Witness ==
    /\ pc = "returned"
    /\ responses = << Build(<<<<BSLASH, "A">>, <<BSLASH, "B">>>>, Quote(<<>>),
                             Quote(<<"X", "X">>)),
                      Build(<<<<BSLASH, "B">>>>, Quote(<<".">>), Quote(<<>>)) >>
    /\ returned[2] = << Mailbox(AlphaToks, <<>>, <<"X", "X">>),
                        Mailbox({<<BSLASH, "B">>}, <<".">>, <<>>) >>

\* C25: a rejected line aborts the whole call: the call that raised has
\* returned nothing, whatever entries the earlier lines of the reply have
\* produced, it takes no further step and so never returns them, and a call
\* returns only when the scan of every line of the reply ended without a
\* raise.
C25_RejectionAbortsTheCall ==
    /\ [](pc = "raised" => returned = <<>>)
    /\ [](pc = "returned" =>
            /\ r = Len(responses) + 1
            /\ \A k \in 1..Len(responses) : ParseLine(responses[k]).line = 0)
    /\ [][pc = "raised" => pc' = "raised" /\ returned' = returned]_vars
    /\ [][returned' # returned => pc = "for" /\ r > Len(responses)]_vars

\* The first line has produced an entry, the second is rejected, and nothing
\* is returned.
C25_Witness ==
    /\ pc = "raised"
    /\ r = 2
    /\ responses[1] = Build(<<<<BSLASH, "B">>>>, Quote(<<".">>), Quote(<<>>))
    /\ responses[2] = Build(<<>>, Quote(<<"/">>), Quote(<<"X">>))
    /\ mailboxes = <<Mailbox({<<BSLASH, "B">>}, <<".">>, <<>>)>>
    /\ returned = <<>>

Holds(s, c) == \E a \in 1..Len(s) : s[a] = c

\* C26: no entry has a DQUOTE in its delimiter or in its name, and no
\* attribute token of an entry holds an SP or a ')'; the step that meets a
\* DQUOTE in the delimiter state ends the delimiter or raises, and the step
\* that meets a DQUOTE in the name state ends the name with that DQUOTE as
\* the last byte of the line or raises.
C26_NoTerminatorInsideAField ==
    /\ [](\A j \in 1..Len(mailboxes) :
            /\ ~Holds(mailboxes[j].hierarchy_delimiter, DQUOTE)
            /\ ~Holds(mailboxes[j].name, DQUOTE)
            /\ \A t \in mailboxes[j].name_attributes :
                  ~Holds(t, SP) /\ ~Holds(t, RPAREN))
    /\ [][pc = "while" /\ state = "READ_HIERARCHY_DELIMITER_INSIDE"
                       /\ At(resp, i) = <<DQUOTE>> =>
            \/ pc' = "raised"
            \/ /\ state' = "READ_NAME_INSIDE"
               /\ hierarchy_delimiter' =
                     Slice(resp, hierarchy_delimiter_begin_index, i)
               /\ ~Holds(hierarchy_delimiter', DQUOTE)]_vars
    /\ [][pc = "while" /\ state = "READ_NAME_INSIDE"
                       /\ At(resp, i) = <<DQUOTE>> =>
            \/ pc' = "raised"
            \/ /\ state' = "DONE"
               /\ i + 1 = Len(resp)
               /\ name' = Slice(resp, name_begin_index, i)
               /\ ~Holds(name', DQUOTE)]_vars

\* A DQUOTE inside the name field, written as an escape pair, is met in the
\* name state before the last byte of the line, and the call raises.
C26_Witness ==
    /\ pc = "raised"
    /\ resp = Build(<<<<BSLASH, "A">>>>, Quote(<<"/">>),
                    Quote(<<BSLASH, DQUOTE>>))
    /\ state = "READ_NAME_INSIDE"
    /\ At(resp, i) = <<DQUOTE>>
    /\ i + 1 < Len(resp)
    /\ mailboxes = <<>>

\* The argument is a non-empty list made only of documented item names.
OnlyDocumentedNames(ns) ==
    /\ Len(ns) >= 1
    /\ \A k \in 1..Len(ns) : ns[k] \in DocumentedNames

\* C21: Client.status accepts each of the six documented item names: for a
\* non-empty list made only of MESSAGES, UIDNEXT, UIDVALIDITY, UNSEEN,
\* DELETED and SIZE the validation of the names never raises, and the call
\* that is over has forwarded '(' + the names joined by single SP + ')'.
C21_DocumentedNamesAccepted ==
    OnlyDocumentedNames(status_data_item_names_list) =>
        /\ status_pc # "raised"
        /\ status_pc = "returned" =>
              /\ Len(status_request) = 1
              /\ status_request[1].names =
                    "(" \o JoinNames(status_data_item_names_list) \o ")"

====
